---------------------------- MODULE Spec2Model ----------------------------
(***************************************************************************)
(* A model of the constant-folding pass of                                 *)
(* frontends/common/constantFolding.cpp (class DoConstantFolding).         *)
(*                                                                         *)
(* The state is the memo `constants` (node identity -> constant            *)
(* expression), the construction parameters (typesKnown, warnings, whether *)
(* a refMap was given), the number of errors in the shared diagnostic      *)
(* sink, a record of the last handler invocation, and a record of the      *)
(* trees a whole pass was given and gave back.  Every                      *)
(* postorder handler is a pure operator from (node, original, memo, mode)  *)
(* to (returned node, memo, diagnostics, outcome); the actions apply the   *)
(* handlers to nodes drawn from bounded sets.                              *)
(***************************************************************************)
EXTENDS Integers, Sequences, FiniteSets, TLC

VARIABLES typesKnown, warnings, refMap, constants, errorCount, calls, last, pass

vars == <<typesKnown, warnings, refMap, constants, errorCount, calls, last, pass>>

(***************************************************************************)
(* Bounds of the model.                                                    *)
(***************************************************************************)
\* number of original node identities the visitor may hand to a handler
MaxNode == 2
\* handler invocations in one run of the general specification
MaxCalls == 2
\* handler invocations in one run of a single-handler specification
MaxFolds == 1
\* cases of a select expression
MaxCases == 2

\* ir/configuration.h: P4CConfiguration::MaximumWidthSupported
MaximumWidthSupported == 2048

(***************************************************************************)
(* Arbitrary-precision integers (mpz_class).  \div is floor division and   *)
(* % is the non-negative remainder, which is two's complement with an      *)
(* infinite sign extension: exactly GMP's semantics of & | ^ ~ and >>.     *)
(***************************************************************************)
RECURSIVE Pow2(_)
Pow2(n) == IF n <= 0 THEN 1 ELSE 2 * Pow2(n - 1)

RECURSIVE BitAnd(_, _)
BitAnd(a, b) ==
    IF a = 0 \/ b = 0 THEN 0
    ELSE IF a = -1 THEN b
    ELSE IF b = -1 THEN a
    ELSE (a % 2) * (b % 2) + 2 * BitAnd(a \div 2, b \div 2)

RECURSIVE BitOr(_, _)
BitOr(a, b) ==
    IF a = 0 THEN b
    ELSE IF b = 0 THEN a
    ELSE IF a = -1 \/ b = -1 THEN -1
    ELSE (IF (a % 2) + (b % 2) > 0 THEN 1 ELSE 0) + 2 * BitOr(a \div 2, b \div 2)

RECURSIVE BitXor(_, _)
BitXor(a, b) ==
    IF a = 0 THEN b
    ELSE IF b = 0 THEN a
    ELSE IF a = -1 THEN -b - 1
    ELSE IF b = -1 THEN -a - 1
    ELSE ((a + b) % 2) + 2 * BitXor(a \div 2, b \div 2)

BitNot(a) == -a - 1

\* Util::shift_left / mpz operator<<
ShiftLeft(a, n) == a * Pow2(n)

\* Util::shift_right / mpz operator>> (floor)
ShiftRight(a, n) == a \div Pow2(n)

sgn(a) == IF a < 0 THEN -1 ELSE IF a = 0 THEN 0 ELSE 1

(***************************************************************************)
(* IR types and IR nodes.  Every node is a record of the same shape; `id`  *)
(* is the node identity (0 for a node that is never a key of the memo:     *)
(* literals and nodes a handler has just allocated).                       *)
(***************************************************************************)
MkType(t, size, isSigned, fields) ==
    [t |-> t, size |-> size, isSigned |-> isSigned, fields |-> fields]

Type_InfInt == MkType("InfInt", 0, FALSE, <<>>)
Type_Bits(size, isSigned) == MkType("Bits", size, isSigned, <<>>)
Type_Boolean == MkType("Boolean", 0, FALSE, <<>>)
Type_State == MkType("State", 0, FALSE, <<>>)
Type_Unknown == MkType("Unknown", 0, FALSE, <<>>)
Type_StructLike(fields) == MkType("StructLike", 0, FALSE, fields)
Type_Stack(size) == MkType("Stack", size, FALSE, <<>>)
Type_Enum == MkType("Enum", 0, FALSE, <<>>)

Mk(kind, id, value, type, base, wasCast, kids, name) ==
    [kind |-> kind, id |-> id, value |-> value, type |-> type, base |-> base,
     wasCast |-> wasCast, kids |-> kids, name |-> name]

\* the null pointer
Null == Mk("null", 0, 0, Type_Unknown, 0, FALSE, <<>>, "")

Constant(type, value, base, wasCast) ==
    Mk("Constant", 0, value, type, base, wasCast, <<>>, "")
BoolLiteral(b) ==
    Mk("BoolLiteral", 0, IF b THEN 1 ELSE 0, Type_Boolean, 0, FALSE, <<>>, "")
DefaultExpression == Mk("DefaultExpression", 0, 0, Type_Unknown, 0, FALSE, <<>>, "")
\* a reference by name; `type` is the type of the declaration it names
PathExpression(id, name, type) == Mk("PathExpression", id, 0, type, 0, FALSE, <<>>, name)
\* E.A: a member of an enum type (what EnumInstance::resolve recognises)
EnumMember(id, name) == Mk("EnumMember", id, 0, Type_Enum, 0, FALSE, <<>>, name)
ListExpression(id, components) ==
    Mk("ListExpression", id, 0, Type_Unknown, 0, FALSE, components, "")
Unary(kind, id, expr) == Mk(kind, id, 0, Type_Unknown, 0, FALSE, <<expr>>, "")
Binary(kind, id, left, right) ==
    Mk(kind, id, 0, Type_Unknown, 0, FALSE, <<left, right>>, "")
Range(left, right) == Binary("Range", 0, left, right)
Mask(left, right) == Binary("Mask", 0, left, right)

IsBool(n) == n.kind = "BoolLiteral"
IsCst(n) == n.kind = "Constant"
IsList(n) == n.kind = "ListExpression"
BoolOf(n) == n.value # 0

\* Type_Bits::operator==
SameBits(a, b) == a.size = b.size /\ a.isSigned = b.isSigned

(***************************************************************************)
(* The memo.  The visitor hands a handler a clone of the original node;    *)
(* the clone of original n has identity CloneOf(n), here -n.               *)
(***************************************************************************)
NodeIds == 1 .. MaxNode
CloneOf(n) == -n
Keys == NodeIds \cup {CloneOf(n) : n \in NodeIds}

EmptyMemo == [k \in Keys |-> Null]

\* get(constants, expr)
Get(cs, id) == IF id \in DOMAIN cs THEN cs[id] ELSE Null

\* std::map::emplace: inserts only when the key is absent (wrong variant)
EmplaceOverwrite(cs, k, v) ==
    IF k \in DOMAIN cs THEN [cs EXCEPT ![k] = v] ELSE cs

\* std::map::emplace: inserts only when the key is absent
Emplace(cs, k, v) ==
    IF k \in DOMAIN cs /\ cs[k] = Null THEN [cs EXCEPT ![k] = v] ELSE cs

\* setConstant (wrong variant: the original node is not recorded)
setConstantNodeOnly(cs, node, orig, result) == Emplace(cs, node.id, result)

\* DoConstantFolding::setConstant: constants.emplace(node, result);
\* constants.emplace(getOriginal(), result)
setConstant(cs, node, orig, result) ==
    Emplace(Emplace(cs, node.id, result), orig, result)

\* DoConstantFolding::getConstant
RECURSIVE getConstant(_, _, _)
getConstant(cs, tk, expr) ==
    IF Get(cs, expr.id) # Null THEN Get(cs, expr.id)
    ELSE IF IsCst(expr) THEN expr
    ELSE IF IsBool(expr) THEN expr
    ELSE IF IsList(expr) THEN
        IF \A i \in 1 .. Len(expr.kids) : getConstant(cs, tk, expr.kids[i]) # Null
        THEN expr ELSE Null
    ELSE IF tk /\ expr.kind = "EnumMember" THEN expr
    ELSE Null

(***************************************************************************)
(* What a handler invocation yields: the node it returns, the memo after   *)
(* it, the diagnostics it emitted in order, and how it ended ("ok", or     *)
(* "bug" when a BUG/BUG_CHECK aborts the pass, or "segv").                 *)
(***************************************************************************)
\* `set` is the result handed to setConstant (Null when it was not called);
\* `inside` is what setContains answered, case by case (select only)
Ret(node, cs, diags) ==
    [node |-> node, constants |-> cs, diags |-> diags, outcome |-> "ok",
     set |-> Null, inside |-> <<>>]
Abort(e, cs, diags, how) ==
    [node |-> e, constants |-> cs, diags |-> diags, outcome |-> how,
     set |-> Null, inside |-> <<>>]
\* setConstant(e, result) followed by `return node`
Fold(cs, e, orig, result, node, diags) ==
    [node |-> node, constants |-> setConstant(cs, e, orig, result), diags |-> diags,
     outcome |-> "ok", set |-> result, inside |-> <<>>]

\* the element of a singleton set; The({F(x) : x \in {e}}) is F(e) with e
\* evaluated once, as a local variable initialised to e
The(S) == CHOOSE x \in S : TRUE

IsError(d) == d.sev = "error"
Err(msg) == [sev |-> "error", msg |-> msg]
Warn(msg) == [sev |-> "warning", msg |-> msg]


(***************************************************************************)
(* Unary operators.                                                        *)
(***************************************************************************)
\* DoConstantFolding::postorder(IR::Cmpl*)
postorderCmpl(cs, tk, e, orig) ==
    LET op == getConstant(cs, tk, e.kids[1]) IN
    IF op = Null THEN Ret(e, cs, <<>>)
    ELSE IF ~IsCst(op) THEN Ret(e, cs, <<Err("Expected an integer value")>>)
    ELSE IF op.type.t = "InfInt" THEN
        Ret(e, cs, <<Err("Operation cannot be applied to values with unknown width")>>)
    ELSE IF op.type.t # "Bits" THEN
        Ret(e, cs, IF tk THEN <<Err("Operation can only be applied to int<> or bit<> types")>>
                   ELSE <<>>)
    ELSE LET result == Constant(op.type, BitNot(op.value), op.base, TRUE) IN
         Fold(cs, e, orig, result, result, <<>>)

\* DoConstantFolding::postorder(IR::Neg*)
postorderNeg(cs, tk, e, orig) ==
    LET op == getConstant(cs, tk, e.kids[1]) IN
    IF op = Null THEN Ret(e, cs, <<>>)
    ELSE IF ~IsCst(op) THEN Ret(e, cs, <<Err("Expected an integer value")>>)
    ELSE IF op.type.t = "InfInt" THEN
        Ret(Constant(op.type, -op.value, op.base, FALSE), cs, <<>>)
    ELSE IF op.type.t # "Bits" THEN
        Ret(e, cs, IF tk THEN <<Err("Operation can only be applied to int<> or bit<> types")>>
                   ELSE <<>>)
    ELSE LET result == Constant(op.type, -op.value, op.base, TRUE) IN
         Fold(cs, e, orig, result, result, <<>>)

\* DoConstantFolding::postorder(IR::LNot*)
postorderLNot(cs, tk, e, orig) ==
    LET op == getConstant(cs, tk, e.kids[1]) IN
    IF op = Null THEN Ret(e, cs, <<>>)
    ELSE IF ~IsBool(op) THEN Ret(e, cs, <<Err("Expected a boolean value")>>)
    ELSE LET result == BoolLiteral(~BoolOf(op)) IN
         Fold(cs, e, orig, result, result, <<>>)

\* DoConstantFolding::cast
cast(node, base, type) == Constant(type, node.value, base, FALSE)

(***************************************************************************)
(* Binary arithmetic, bitwise and relational operators.                    *)
(***************************************************************************)
ArithKinds == {"Add", "Sub", "Mul", "BXor", "BAnd", "BOr"}
DivKinds == {"Div", "Mod"}
\* the subclasses of IR::Operation_Relation
RelationKinds == {"Equ", "Neq", "Lss", "Grt", "Leq", "Geq"}

FnVal(v) == [value |-> v, diags |-> <<>>]
FnErr(msg) == [value |-> 0, diags |-> <<Err(msg)>>]
FromBool(b) == IF b THEN 1 ELSE 0

\* the functions the postorder methods and compare hand to binary
Func(kind, a, b) ==
    CASE kind = "Add" -> FnVal(a + b)
      [] kind = "Sub" -> FnVal(a - b)
      [] kind = "Mul" -> FnVal(a * b)
      [] kind = "BXor" -> FnVal(BitXor(a, b))
      [] kind = "BAnd" -> FnVal(BitAnd(a, b))
      [] kind = "BOr" -> FnVal(BitOr(a, b))
      [] kind = "Lss" -> FnVal(FromBool(a < b))
      [] kind = "Grt" -> FnVal(FromBool(a > b))
      [] kind = "Leq" -> FnVal(FromBool(a <= b))
      [] kind = "Geq" -> FnVal(FromBool(a >= b))
      [] kind = "Equ" -> FnVal(FromBool(a = b))
      [] kind = "Neq" -> FnVal(FromBool(a # b))
      [] kind = "Div" -> IF sgn(a) < 0 \/ sgn(b) < 0
                         THEN FnErr("Division is not defined for negative numbers")
                         ELSE IF sgn(b) = 0 THEN FnErr("Division by zero")
                         ELSE FnVal(a \div b)
      [] kind = "Mod" -> IF sgn(a) < 0 \/ sgn(b) < 0
                         THEN FnErr("Modulo is not defined for negative numbers")
                         ELSE IF sgn(b) = 0 THEN FnErr("Modulo by zero")
                         ELSE FnVal(a % b)

\* binary with one slip: the folded Constant takes the right operand's print
\* base and is wrapped to the width of the result type
binaryWrapped(cs, tk, e, orig) ==
    LET eleft == getConstant(cs, tk, e.kids[1])
        eright == getConstant(cs, tk, e.kids[2])
    IN
    IF eleft = Null \/ eright = Null THEN Ret(e, cs, <<>>)
    ELSE IF ~IsCst(eleft) THEN Ret(e, cs, <<Err("Expected a bit<> or int<> value")>>)
    ELSE IF ~IsCst(eright) THEN Ret(e, cs, <<Err("Expected an bit<> or int<> value")>>)
    ELSE
    LET lt == eleft.type
        rt == eright.type
        lunk == lt.t = "InfInt"
        runk == rt.t = "InfInt"
        f == Func(e.kind, eleft.value, eright.value)
        notBits == IF tk THEN <<Err("Operation can only be applied to int<> or bit<> types")>>
                   ELSE <<>>
    IN
    IF ~lunk /\ lt.t # "Bits" THEN Ret(e, cs, f.diags \o notBits)
    ELSE IF ~runk /\ rt.t # "Bits" THEN Ret(e, cs, f.diags \o notBits)
    ELSE IF ~lunk /\ ~runk /\ ~SameBits(lt, rt) THEN
        Ret(e, cs, f.diags \o <<Err("operands have different types")>>)
    ELSE
    LET resultType == IF ~lunk /\ ~runk THEN rt
                      ELSE IF lunk /\ runk THEN lt
                      ELSE IF lunk THEN rt ELSE lt
        value == IF resultType.t = "Bits" THEN f.value % Pow2(resultType.size)
                 ELSE f.value
        result == IF e.kind \in RelationKinds THEN BoolLiteral(f.value # 0)
                  ELSE Constant(resultType, value, eright.base, TRUE)
    IN  Fold(cs, e, orig, result, result, f.diags)

\* DoConstantFolding::binary
binary(cs, tk, e, orig) ==
    LET eleft == getConstant(cs, tk, e.kids[1])
        eright == getConstant(cs, tk, e.kids[2])
    IN
    IF eleft = Null \/ eright = Null THEN Ret(e, cs, <<>>)
    ELSE IF ~IsCst(eleft) THEN Ret(e, cs, <<Err("Expected a bit<> or int<> value")>>)
    ELSE IF ~IsCst(eright) THEN Ret(e, cs, <<Err("Expected an bit<> or int<> value")>>)
    ELSE
    LET lt == eleft.type
        rt == eright.type
        lunk == lt.t = "InfInt"
        runk == rt.t = "InfInt"
        f == Func(e.kind, eleft.value, eright.value)
        notBits == IF tk THEN <<Err("Operation can only be applied to int<> or bit<> types")>>
                   ELSE <<>>
    IN
    IF ~lunk /\ lt.t # "Bits" THEN Ret(e, cs, f.diags \o notBits)
    ELSE IF ~runk /\ rt.t # "Bits" THEN Ret(e, cs, f.diags \o notBits)
    ELSE IF ~lunk /\ ~runk /\ ~SameBits(lt, rt) THEN
        Ret(e, cs, f.diags \o <<Err("operands have different types")>>)
    ELSE
    LET resultType == IF ~lunk /\ ~runk THEN rt
                      ELSE IF lunk /\ runk THEN lt
                      ELSE IF lunk THEN rt ELSE lt
        left == IF lunk /\ ~runk THEN cast(eleft, eleft.base, rt) ELSE eleft
        result == IF e.kind \in RelationKinds THEN BoolLiteral(f.value # 0)
                  ELSE Constant(resultType, f.value, left.base, TRUE)
    IN  Fold(cs, e, orig, result, result, f.diags)

\* DoConstantFolding::compare
compare(cs, tk, e, orig) ==
    LET eleft == getConstant(cs, tk, e.kids[1])
        eright == getConstant(cs, tk, e.kids[2])
        eqTest == e.kind = "Equ"
    IN
    IF eleft = Null \/ eright = Null THEN Ret(e, cs, <<>>)
    ELSE IF IsBool(eleft) THEN
        IF ~IsBool(eright) THEN Ret(e, cs, <<Err("both operands must be Boolean")>>)
        ELSE LET result == BoolLiteral((BoolOf(eleft) = BoolOf(eright)) = eqTest) IN
             Fold(cs, e, orig, result, result, <<>>)
    ELSE binary(cs, tk, e, orig)

(***************************************************************************)
(* Logical operators and shifts.                                           *)
(***************************************************************************)
\* DoConstantFolding::postorder(IR::LAnd*)
postorderLAnd(cs, tk, e, orig) ==
    LET left == getConstant(cs, tk, e.kids[1]) IN
    IF left = Null THEN Ret(e, cs, <<>>)
    ELSE IF ~IsBool(left) THEN Ret(e, cs, <<Err("Expected a boolean value")>>)
    ELSE IF BoolOf(left) THEN Fold(cs, e, orig, e.kids[2], e.kids[2], <<>>)
    ELSE LET result == BoolLiteral(FALSE) IN
         Fold(cs, e, orig, result, result, <<>>)

\* DoConstantFolding::postorder(IR::LOr*)
postorderLOr(cs, tk, e, orig) ==
    LET left == getConstant(cs, tk, e.kids[1]) IN
    IF left = Null THEN Ret(e, cs, <<>>)
    ELSE IF ~IsBool(left) THEN Ret(e, cs, <<Err("Expected a boolean value")>>)
    ELSE IF ~BoolOf(left) THEN Fold(cs, e, orig, e.kids[2], e.kids[2], <<>>)
    ELSE LET result == BoolLiteral(TRUE) IN
         Fold(cs, e, orig, result, result, <<>>)

\* DoConstantFolding::shift
shift(cs, tk, warn, e, orig) ==
    LET right == getConstant(cs, tk, e.kids[2]) IN
    IF right = Null THEN Ret(e, cs, <<>>)
    ELSE IF ~IsCst(right) THEN Ret(e, cs, <<Err("Expected an integer value")>>)
    ELSE IF sgn(right.value) < 0 THEN
        Ret(e, cs, <<Err("Shifts with negative amounts are not permitted")>>)
    ELSE IF sgn(right.value) = 0 THEN
        Fold(cs, e, orig, e.kids[1], e.kids[1], <<>>)
    ELSE
    LET left == getConstant(cs, tk, e.kids[1]) IN
    IF left = Null THEN Ret(e, cs, <<>>)
    ELSE IF ~IsCst(left) THEN Ret(e, cs, <<Err("Expected an integer value")>>)
    ELSE
    LET amount == right.value
        w == IF left.type.t = "Bits" /\ left.type.size < amount /\ warn
             THEN <<Warn("Shifting value with more than its width")>> ELSE <<>>
        value == IF e.kind = "Shl" THEN ShiftLeft(left.value, amount)
                 ELSE ShiftRight(left.value, amount)
        result == Constant(left.type, value, left.base, FALSE)
    IN  Fold(cs, e, orig, result, result, w)

(***************************************************************************)
(* Slice, member projection, concatenation and cast.  The type map is an   *)
(* external collaborator: the type it reports for a node is carried in the *)
(* node's `type` field.                                                    *)
(***************************************************************************)
\* the mask of the slice as the specification words it: all ones of the
\* slice width
SliceMaskAllOnes(m, l) == ShiftLeft(1, m - l + 1) - 1

\* mask = 1; mask = mask << (m - l + 1) - 1;  in C++ the shift operator binds
\* less tightly than + and -, so the shift amount is (m - l + 1) - 1
SliceMask(m, l) == ShiftLeft(1, (m - l + 1) - 1)

\* DoConstantFolding::postorder(IR::Slice*); kids are <<e0, e1 (msb), e2 (lsb)>>
postorderSlice(cs, tk, e, orig) ==
    LET msb == getConstant(cs, tk, e.kids[2])
        lsb == getConstant(cs, tk, e.kids[3])
    IN
    IF msb = Null \/ lsb = Null THEN
        Ret(e, cs, <<Err("bit indexes must be compile-time constants")>>)
    ELSE IF ~tk THEN Ret(e, cs, <<>>)
    ELSE
    LET e0 == getConstant(cs, tk, e.kids[1]) IN
    IF e0 = Null THEN Ret(e, cs, <<>>)
    ELSE IF ~IsCst(msb) THEN Ret(e, cs, <<Err("Expected an integer value")>>)
    ELSE IF ~IsCst(lsb) THEN Ret(e, cs, <<Err("Expected an integer value")>>)
    ELSE IF ~IsCst(e0) THEN Ret(e, cs, <<Err("Expected an integer value")>>)
    ELSE
    LET m == msb.value
        l == lsb.value
    IN
    IF m < l THEN Ret(e, cs, <<Err("bit slicing should be specified as [msb:lsb]")>>)
    ELSE IF m > MaximumWidthSupported \/ l > MaximumWidthSupported THEN
        Ret(e, cs, <<Err("Compiler only supports widths up to MaximumWidthSupported")>>)
    ELSE
    LET value == BitAnd(ShiftRight(e0.value, l), SliceMask(m, l))
        resultType == e.type
    IN
    IF resultType.t # "Bits" THEN Abort(e, cs, <<>>, "bug")
    ELSE LET result == Constant(resultType, value, e0.base, TRUE) IN
         Fold(cs, e, orig, result, result, <<>>)

\* the index of the field named `name` in `fields`, or 0
FieldIndex(fields, name) ==
    IF \E i \in 1 .. Len(fields) : fields[i] = name
    THEN CHOOSE i \in 1 .. Len(fields) :
             fields[i] = name /\ \A j \in 1 .. (i - 1) : fields[j] # name
    ELSE 0

\* node->clone(): the same contents under a new identity
Clone(n) == [n EXCEPT !.id = 0]

\* DoConstantFolding::postorder(IR::Member*); kids are <<expr>>, name is the member
postorderMember(cs, tk, e, orig) ==
    IF ~tk THEN Ret(e, cs, <<>>)
    ELSE
    LET type == e.kids[1].type IN
    IF type.t = "Stack" /\ e.name = "size" THEN
        LET result == Constant(Type_InfInt, type.size, 10, FALSE) IN
        Fold(cs, e, orig, result, result, <<>>)
    ELSE
    LET expr == getConstant(cs, tk, e.kids[1]) IN
    IF expr = Null THEN Ret(e, cs, <<>>)
    ELSE IF type.t # "StructLike" THEN Abort(e, cs, <<>>, "bug")
    ELSE IF ~IsList(expr) THEN Abort(e, cs, <<>>, "bug")
    ELSE
    LET index == FieldIndex(type.fields, e.name) IN
    IF index = 0 THEN Abort(e, cs, <<>>, "bug")
    ELSE IF index > Len(expr.kids) THEN Abort(e, cs, <<>>, "out_of_range")
    ELSE LET c == Clone(expr.kids[index])
             \* typeMap->setType(result, origtype); a literal carries its own type
             result == IF IsCst(c) \/ IsBool(c) THEN c ELSE [c EXCEPT !.type = e.type]
         IN  Fold(cs, e, orig, result, result, <<>>)

\* DoConstantFolding::postorder(IR::Concat*)
postorderConcat(cs, tk, e, orig) ==
    LET left == getConstant(cs, tk, e.kids[1])
        right == getConstant(cs, tk, e.kids[2])
    IN
    IF left = Null \/ right = Null THEN Ret(e, cs, <<>>)
    ELSE IF ~IsCst(left) THEN Ret(e, cs, <<Err("Expected a bit<> or int<> value")>>)
    ELSE IF ~IsCst(right) THEN Ret(e, cs, <<Err("Expected an bit<> or int<> value")>>)
    ELSE IF left.type.t # "Bits" \/ right.type.t # "Bits" THEN
        Ret(e, cs, <<Err("both operand widths must be known")>>)
    ELSE IF ~SameBits(left.type, right.type) THEN
        Ret(e, cs, <<Err("operands have different types")>>)
    ELSE
    LET lt == left.type
        rt == right.type
        resultType == Type_Bits(lt.size + rt.size, lt.isSigned)
        value == ShiftLeft(left.value, lt.size) + right.value
        result == Constant(resultType, value, left.base, FALSE)
    IN  Fold(cs, e, orig, result, result, <<>>)

\* DoConstantFolding::postorder(IR::Cast*); kids are <<expr>>, type is the
\* destination type
postorderCast(cs, tk, e, orig) ==
    LET expr == getConstant(cs, tk, e.kids[1])
        etype == e.type
    IN
    IF expr = Null THEN Ret(e, cs, <<>>)
    ELSE IF etype.t = "Bits" THEN
        IF IsCst(expr) THEN
            LET result == cast(expr, expr.base, etype) IN
            Fold(cs, e, orig, result, result, <<>>)
        ELSE IF ~IsBool(expr) THEN Abort(e, cs, <<>>, "bug")
        ELSE LET result == Constant(etype, IF BoolOf(expr) THEN 1 ELSE 0, 10, FALSE) IN
             Fold(cs, e, orig, result, result, <<>>)
    ELSE IF etype.t = "StructLike" THEN
        \* typeMap->getType with no type map is a call through a null pointer
        IF ~tk THEN Abort(e, cs, <<>>, "segv")
        ELSE LET result == Clone(expr) IN
             Fold(cs, e, orig, result, result, <<>>)
    ELSE Ret(e, cs, <<>>)

(***************************************************************************)
(* Names: path resolution and constant declarations.  The symbol table is  *)
(* an external collaborator; it maps a path to the original declaration    *)
(* node.                                                                   *)
(***************************************************************************)
\* the name of the constant declared by original node n
DeclName(n) == IF n = 1 THEN "x" ELSE IF n = 2 THEN "y" ELSE "z"

\* refMap->getDeclaration(path): the original declaration node, or 0 (nullptr)
getDeclaration(path) ==
    IF \E n \in NodeIds : DeclName(n) = path
    THEN CHOOSE n \in NodeIds : DeclName(n) = path
    ELSE 0

\* postorder(IR::PathExpression*) (wrong variant: a list is substituted too)
postorderPathExpressionSubstitutes(cs, haveRefMap, e, orig) ==
    IF ~haveRefMap THEN Ret(e, cs, <<>>)
    ELSE
    LET decl == getDeclaration(e.name) IN
    IF decl = 0 THEN Ret(e, cs, <<>>)
    ELSE
    LET v == Get(cs, decl) IN
    IF v = Null THEN Ret(e, cs, <<>>)
    ELSE Fold(cs, e, orig, v, v, <<>>)

\* DoConstantFolding::postorder(IR::PathExpression*)
postorderPathExpression(cs, haveRefMap, e, orig) ==
    IF ~haveRefMap THEN Ret(e, cs, <<>>)
    ELSE
    LET decl == getDeclaration(e.name) IN
    IF decl = 0 THEN Ret(e, cs, <<>>)
    ELSE
    LET v == Get(cs, decl) IN
    IF v = Null THEN Ret(e, cs, <<>>)
    ELSE IF IsList(v) THEN Fold(cs, e, orig, v, e, <<>>)
    ELSE Fold(cs, e, orig, v, v, <<>>)

Declaration_Constant(id, name, type, initializer) ==
    Mk("Declaration_Constant", id, 0, type, 0, FALSE, <<initializer>>, name)

\* DoConstantFolding::postorder(IR::Declaration_Constant*)
postorderDeclaration_Constant(cs, tk, d, orig) ==
    LET init0 == getConstant(cs, tk, d.kids[1]) IN
    IF init0 = Null THEN
        Ret(d, cs, IF tk THEN <<Err("Cannot evaluate initializer for constant")>> ELSE <<>>)
    ELSE
    LET recast == ~tk /\ IsCst(init0) /\ d.type.t = "Bits"
                  /\ (init0.type.t = "InfInt"
                      \/ (init0.type.t = "Bits" /\ ~SameBits(d.type, init0.type)))
        init == IF recast THEN Constant(d.type, init0.value, init0.base, FALSE) ELSE init0
        memoize == tk \/ (IsCst(init0) /\ d.type.t = "Bits")
        d1 == IF init # d.kids[1]
              THEN Declaration_Constant(0, d.name, d.type, init) ELSE d
    IN  IF memoize THEN Fold(cs, d, orig, init, d1, <<>>) ELSE Ret(d1, cs, <<>>)

(***************************************************************************)
(* Set containment and the reduction of select.                            *)
(***************************************************************************)
\* what a use of a null pointer does in the builds of the compiler: the
\* BUG_CHECK that follows fires, or the process takes a segmentation fault
UBOutcomes == {"bug", "segv"}

SC(r, diags) == [r |-> r, diags |-> diags]
Results == {"Yes", "No", "DontKnow"}

\* DoConstantFolding::setContains; ub is the outcome of undefined behaviour
RECURSIVE setContains(_, _, _, _, _)
RECURSIVE setContainsList(_, _, _, _, _, _, _)
setContains(cs, tk, ub, keySet, select) ==
    IF keySet.kind = "DefaultExpression" THEN SC("Yes", <<>>)
    ELSE IF IsList(select) THEN
        IF IsList(keySet) THEN
            IF Len(select.kids) # Len(keySet.kids) THEN SC("bug", <<>>)
            ELSE setContainsList(cs, tk, ub, keySet, select, 1, <<>>)
        ELSE IF Len(select.kids) # 1 THEN SC("bug", <<>>)
        ELSE setContains(cs, tk, ub, keySet, select.kids[1])
    ELSE IF IsBool(select) THEN
        LET key == getConstant(cs, tk, keySet) IN
        IF key = Null THEN SC(ub, <<Err("expression must evaluate to a constant")>>)
        ELSE IF ~IsBool(key) THEN SC("bug", <<>>)
        ELSE IF BoolOf(select) = BoolOf(key) THEN SC("Yes", <<>>)
        ELSE SC("No", <<>>)
    ELSE IF ~IsCst(select) THEN SC("bug", <<>>)
    ELSE IF IsCst(keySet) THEN
        IF keySet.value = select.value THEN SC("Yes", <<>>) ELSE SC("No", <<>>)
    ELSE IF keySet.kind = "Range" THEN
        LET left == getConstant(cs, tk, keySet.kids[1])
            right == getConstant(cs, tk, keySet.kids[2])
        IN
        IF left = Null THEN SC("DontKnow", <<Err("expression must evaluate to a constant")>>)
        ELSE IF right = Null THEN
            SC("DontKnow", <<Err("expression must evaluate to a constant")>>)
        ELSE IF ~IsCst(left) \/ ~IsCst(right) THEN SC("segv", <<>>)
        ELSE IF left.value <= select.value /\ right.value >= select.value
        THEN SC("Yes", <<>>) ELSE SC("No", <<>>)
    ELSE IF keySet.kind = "Mask" THEN
        LET left == getConstant(cs, tk, keySet.kids[1])
            right == getConstant(cs, tk, keySet.kids[2])
        IN
        IF left = Null THEN SC("DontKnow", <<Err("expression must evaluate to a constant")>>)
        ELSE IF right = Null THEN
            SC("DontKnow", <<Err("expression must evaluate to a constant")>>)
        ELSE IF ~IsCst(left) \/ ~IsCst(right) THEN SC("segv", <<>>)
        ELSE IF BitAnd(left.value, right.value) = BitAnd(right.value, select.value)
        THEN SC("Yes", <<>>) ELSE SC("No", <<>>)
    ELSE SC("DontKnow", <<Err("unexpected expression")>>)

\* the loop of setContains over the components of a list selector
setContainsList(cs, tk, ub, klist, list, i, diags) ==
    IF i > Len(list.kids) THEN SC("Yes", diags)
    ELSE The({IF r.r # "Yes" THEN SC(r.r, diags \o r.diags)
              ELSE setContainsList(cs, tk, ub, klist, list, i + 1, diags \o r.diags) :
              r \in {setContains(cs, tk, ub, klist.kids[i], list.kids[i])}})

SelectCase(keyset, state) ==
    Mk("SelectCase", 0, 0, Type_Unknown, 0, FALSE, <<keyset, state>>, "")
\* kids are <<select, case 1, ..., case n>>
SelectExpression(id, select, cases) ==
    Mk("SelectExpression", id, 0, Type_State, 0, FALSE, <<select>> \o cases, "")
SelectCases(e) == SubSeq(e.kids, 2, Len(e.kids))

\* the locals of postorder(IR::SelectExpression*) before its loop
SelectStart(e) ==
    [cases |-> <<>>, someUnknown |-> FALSE, changes |-> FALSE, finished |-> FALSE,
     result |-> e, diags |-> <<>>, outcome |-> "ok", inside |-> <<>>]

\* one iteration of the loop (wrong variant: a definite match ends the
\* select even when an earlier case is not decided)
SelectStepIgnoreUnknown(cs, tk, warn, ub, sel, c, a) ==
    IF a.outcome # "ok" THEN a
    ELSE IF a.finished THEN
        [a EXCEPT !.diags = IF warn THEN @ \o <<Warn("unreachable case")>> ELSE @]
    ELSE
    The({LET a1 == [a EXCEPT !.diags = @ \o in.diags, !.inside = Append(@, in.r)] IN
         IF in.r \notin Results THEN [a1 EXCEPT !.outcome = in.r]
         ELSE IF in.r = "No" THEN [a1 EXCEPT !.changes = TRUE]
         ELSE IF in.r = "DontKnow" THEN
             [a1 EXCEPT !.someUnknown = TRUE, !.cases = Append(@, c)]
         ELSE [a1 EXCEPT !.changes = TRUE, !.finished = TRUE, !.result = c.kids[2]] :
         in \in {setContains(cs, tk, ub, c.kids[1], sel)}})

\* one iteration of the loop (wrong variant: after an undecided case the
\* matching case is kept with its own keyset)
SelectStepKeepsKeyset(cs, tk, warn, ub, sel, c, a) ==
    IF a.outcome # "ok" THEN a
    ELSE IF a.finished THEN
        [a EXCEPT !.diags = IF warn THEN @ \o <<Warn("unreachable case")>> ELSE @]
    ELSE
    The({LET a1 == [a EXCEPT !.diags = @ \o in.diags, !.inside = Append(@, in.r)] IN
         IF in.r \notin Results THEN [a1 EXCEPT !.outcome = in.r]
         ELSE IF in.r = "No" THEN [a1 EXCEPT !.changes = TRUE]
         ELSE IF in.r = "DontKnow" THEN
             [a1 EXCEPT !.someUnknown = TRUE, !.cases = Append(@, c)]
         ELSE IF a.someUnknown THEN
             [a1 EXCEPT !.changes = TRUE, !.finished = TRUE, !.cases = Append(@, c)]
         ELSE [a1 EXCEPT !.changes = TRUE, !.finished = TRUE, !.result = c.kids[2]] :
         in \in {setContains(cs, tk, ub, c.kids[1], sel)}})

\* one iteration of the loop of postorder(IR::SelectExpression*) on case c;
\* a.inside records what setContains answered for each case evaluated
SelectStep(cs, tk, warn, ub, sel, c, a) ==
    IF a.outcome # "ok" THEN a
    ELSE IF a.finished THEN
        [a EXCEPT !.diags = IF warn THEN @ \o <<Warn("unreachable case")>> ELSE @]
    ELSE
    The({LET a1 == [a EXCEPT !.diags = @ \o in.diags, !.inside = Append(@, in.r)] IN
         IF in.r \notin Results THEN [a1 EXCEPT !.outcome = in.r]
         ELSE IF in.r = "No" THEN [a1 EXCEPT !.changes = TRUE]
         ELSE IF in.r = "DontKnow" THEN
             [a1 EXCEPT !.someUnknown = TRUE, !.cases = Append(@, c)]
         ELSE IF a.someUnknown THEN
             [a1 EXCEPT !.changes = TRUE, !.finished = TRUE,
                        !.cases = Append(@, SelectCase(DefaultExpression, c.kids[2]))]
         ELSE [a1 EXCEPT !.changes = TRUE, !.finished = TRUE, !.result = c.kids[2]] :
         in \in {setContains(cs, tk, ub, c.kids[1], sel)}})

RECURSIVE SelectLoop(_, _, _, _, _, _, _, _)
SelectLoop(cs, tk, warn, ub, sel, cases, i, a) ==
    IF i > Len(cases) THEN a
    ELSE SelectLoop(cs, tk, warn, ub, sel, cases, i + 1,
                    SelectStep(cs, tk, warn, ub, sel, cases[i], a))

\* DoConstantFolding::postorder(IR::SelectExpression*)
postorderSelectExpression(cs, tk, warn, ub, expression, orig) ==
    IF ~tk THEN Ret(expression, cs, <<>>)
    ELSE
    LET sel == getConstant(cs, tk, expression.kids[1]) IN
    IF sel = Null THEN Ret(expression, cs, <<>>)
    ELSE
    The({LET rewritten == [expression EXCEPT !.kids = <<expression.kids[1]>> \o a.cases]
             noMatch == a.changes /\ Len(a.cases) = 0 /\ a.result = expression /\ warn
             diags == a.diags \o (IF noMatch THEN <<Warn("no case matches")>> ELSE <<>>)
         IN
         IF a.outcome # "ok" THEN
             [Abort(expression, cs, a.diags, a.outcome) EXCEPT !.inside = a.inside]
         ELSE IF a.result # expression THEN
             [Ret(a.result, cs, diags) EXCEPT !.inside = a.inside]
         ELSE [Ret(IF a.changes THEN rewritten ELSE expression, cs, diags)
                  EXCEPT !.inside = a.inside] :
         a \in {SelectLoop(cs, tk, warn, ub, sel, SelectCases(expression), 1,
                           SelectStart(expression))}})

(***************************************************************************)
(* The traversal.  The visitor walks a tree bottom-up: it visits the       *)
(* children of a node left to right, hands the handler of the node's kind  *)
(* a copy of the node with the children it got back, and puts what the     *)
(* handler returns in the place of the node.  A node none of whose         *)
(* children changed and whose handler returned the copy stays the original *)
(* node.                                                                   *)
(***************************************************************************)
\* the kinds of node DoConstantFolding has a postorder handler for
HandlerKinds ==
    {"PathExpression", "Declaration_Constant", "Cmpl", "Neg", "LNot", "LAnd", "LOr",
     "Shl", "Shr", "Slice", "Member", "Concat", "Cast", "SelectExpression"}
        \cup ArithKinds \cup DivKinds \cup RelationKinds

\* the postorder overload the visitor picks for e
postorder(cs, tk, warn, haveRefMap, ub, e, orig) ==
    CASE e.kind = "PathExpression" -> postorderPathExpression(cs, haveRefMap, e, orig)
      [] e.kind = "Declaration_Constant" -> postorderDeclaration_Constant(cs, tk, e, orig)
      [] e.kind = "Cmpl" -> postorderCmpl(cs, tk, e, orig)
      [] e.kind = "Neg" -> postorderNeg(cs, tk, e, orig)
      [] e.kind = "LNot" -> postorderLNot(cs, tk, e, orig)
      [] e.kind = "LAnd" -> postorderLAnd(cs, tk, e, orig)
      [] e.kind = "LOr" -> postorderLOr(cs, tk, e, orig)
      [] e.kind \in {"Shl", "Shr"} -> shift(cs, tk, warn, e, orig)
      [] e.kind = "Slice" -> postorderSlice(cs, tk, e, orig)
      [] e.kind = "Member" -> postorderMember(cs, tk, e, orig)
      [] e.kind = "Concat" -> postorderConcat(cs, tk, e, orig)
      [] e.kind = "Cast" -> postorderCast(cs, tk, e, orig)
      [] e.kind = "SelectExpression" ->
             postorderSelectExpression(cs, tk, warn, ub, e, orig)
      [] e.kind \in {"Equ", "Neq"} -> compare(cs, tk, e, orig)
      [] OTHER -> binary(cs, tk, e, orig)

\* identities of the nodes of a tree: a constant declaration is the node the
\* reference map resolves its name to, any other node with a handler is
\* known by its position (positions are numbered in base PositionBase)
PositionBase == 8
RECURSIVE Number(_, _)
Number(t, pos) ==
    [t EXCEPT !.id = IF t.kind = "Declaration_Constant" THEN getDeclaration(t.name)
                     ELSE IF t.kind \in HandlerKinds THEN MaxNode + pos
                     ELSE 0,
              !.kids = [i \in 1 .. Len(t.kids) |->
                           Number(t.kids[i], pos * PositionBase + i)]]

\* a tree without its identities: what structural equality compares
RECURSIVE Strip(_)
Strip(t) == [t EXCEPT !.id = 0, !.kids = [i \in 1 .. Len(t.kids) |-> Strip(t.kids[i])]]

RECURSIVE IdsOf(_)
IdsOf(t) ==
    (IF t.id = 0 THEN {} ELSE {t.id})
        \cup UNION {IdsOf(t.kids[i]) : i \in 1 .. Len(t.kids)}

\* the memo of a new pass over tree t: no node of t, and no copy of one, is a key
FreshMemo(t) == [k \in IdsOf(t) \cup {CloneOf(n) : n \in IdsOf(t)} |-> Null]

\* the visit of tree t: the tree that replaces it, the memo and diagnostics
\* after it, how it ended, and the number of handler invocations it made
Visited(node, cs, diags, outcome, n) ==
    [node |-> node, constants |-> cs, diags |-> diags, outcome |-> outcome, n |-> n]

\* what the visitor puts in the place of t, given the visit k of its children
\* and the answer r of the handler to the copy
Replace(t, copy, k, r) ==
    Visited(IF r.node = copy /\ k.kids = t.kids THEN t ELSE r.node,
            r.constants, k.diags \o r.diags, r.outcome, k.n + 1)

RECURSIVE visit(_, _, _, _, _, _), visitChildren(_, _, _, _, _, _, _)
visitChildren(tk, warn, haveRefMap, ub, kids, i, a) ==
    IF i > Len(kids) \/ a.outcome # "ok" THEN a
    ELSE The({visitChildren(tk, warn, haveRefMap, ub, kids, i + 1,
                  [kids |-> Append(a.kids, r.node), constants |-> r.constants,
                   diags |-> a.diags \o r.diags, outcome |-> r.outcome,
                   n |-> a.n + r.n]) :
              r \in {visit(a.constants, tk, warn, haveRefMap, ub, kids[i])}})

visit(cs, tk, warn, haveRefMap, ub, t) ==
    The({IF k.outcome # "ok" THEN Visited(t, k.constants, k.diags, k.outcome, k.n)
         ELSE IF t.kind \notin HandlerKinds THEN
             Visited(IF k.kids = t.kids THEN t ELSE [t EXCEPT !.kids = k.kids],
                     k.constants, k.diags, "ok", k.n)
         ELSE The({Replace(t, copy, k,
                           postorder(k.constants, tk, warn, haveRefMap, ub, copy, t.id)) :
                   copy \in {[t EXCEPT !.id = CloneOf(t.id), !.kids = k.kids]}}) :
         k \in {visitChildren(tk, warn, haveRefMap, ub, t.kids, 1,
                              [kids |-> <<>>, constants |-> cs, diags |-> <<>>,
                               outcome |-> "ok", n |-> 0])}})

(***************************************************************************)
(* The state machine.  Init is the pass after construction: an empty memo  *)
(* and any construction parameters.  One action per postorder handler.     *)
(***************************************************************************)
NoCall ==
    [handler |-> "none", e |-> Null, orig |-> 0, node |-> Null, diags |-> <<>>,
     outcome |-> "ok", set |-> Null, inside |-> <<>>, added |-> {}]

\* no tree has been handed to the pass
NoPass == [stage |-> "none", depth |-> 0, input |-> Null, once |-> Null, twice |-> Null]

Init ==
    /\ typesKnown \in BOOLEAN
    /\ warnings \in BOOLEAN
    /\ refMap \in BOOLEAN
    /\ constants = EmptyMemo
    /\ errorCount = 0
    /\ calls = 0
    /\ last = NoCall
    /\ pass = NoPass

NumErrors(diags) == Cardinality({i \in DOMAIN diags : IsError(diags[i])})

\* the visitor calls handler h on e, the clone of original node orig, and
\* the handler yields r; a BUG or a crash ends the pass
Invoke(h, e, orig, r) ==
    /\ last.outcome = "ok"
    /\ calls' = calls + 1
    /\ constants' = r.constants
    /\ errorCount' = errorCount + NumErrors(r.diags)
    /\ last' = [handler |-> h, e |-> e, orig |-> orig, node |-> r.node,
                diags |-> r.diags, outcome |-> r.outcome, set |-> r.set,
                inside |-> r.inside,
                added |-> {k \in DOMAIN constants :
                              constants[k] = Null /\ r.constants[k] # Null}]
    /\ UNCHANGED <<typesKnown, warnings, refMap, pass>>

U8 == Type_Bits(8, FALSE)
S8 == Type_Bits(8, TRUE)
U16 == Type_Bits(16, FALSE)
StructT == Type_StructLike(<<"f", "g">>)

\* an unresolved name: a path whose declaration is not a constant
Opaque == PathExpression(0, "p", U8)
\* a reference to the constant declared by original node n, as the visitor
\* leaves it in the tree (the original path node n)
Ref(n, type) == PathExpression(n, DeclName(n), type)

Cst3 == Constant(U8, 3, 16, FALSE)
Zero == Constant(Type_InfInt, 0, 10, FALSE)
True == BoolLiteral(TRUE)
False == BoolLiteral(FALSE)
Pair == ListExpression(0, <<Cst3, True>>)

(***************************************************************************)
(* The general specification: every handler, on a few operands each, for   *)
(* MaxCalls invocations.                                                   *)
(***************************************************************************)
VisitPathExpression ==
    \E orig \in NodeIds, name \in {DeclName(n) : n \in NodeIds} \cup {"p"} :
        LET e == PathExpression(CloneOf(orig), name, U8) IN
        Invoke("PathExpression", e, orig,
               postorderPathExpression(constants, refMap, e, orig))

VisitDeclaration_Constant ==
    \E orig \in NodeIds, p \in {<<U8, Zero>>, <<StructT, Pair>>, <<U8, Opaque>>} :
        LET d == Declaration_Constant(CloneOf(orig), DeclName(orig), p[1], p[2]) IN
        Invoke("Declaration_Constant", d, orig,
               postorderDeclaration_Constant(constants, typesKnown, d, orig))

VisitCmpl ==
    \E orig \in NodeIds, x \in {Cst3, Zero} :
        LET e == Unary("Cmpl", CloneOf(orig), x) IN
        Invoke("Cmpl", e, orig, postorderCmpl(constants, typesKnown, e, orig))

VisitNeg ==
    \E orig \in NodeIds, x \in {Cst3, True} :
        LET e == Unary("Neg", CloneOf(orig), x) IN
        Invoke("Neg", e, orig, postorderNeg(constants, typesKnown, e, orig))

VisitLNot ==
    \E orig \in NodeIds, x \in {True, Opaque} :
        LET e == Unary("LNot", CloneOf(orig), x) IN
        Invoke("LNot", e, orig, postorderLNot(constants, typesKnown, e, orig))

VisitBinary ==
    \E orig \in NodeIds,
       p \in {<<"Add", Cst3, Cst3>>, <<"Div", Cst3, Zero>>, <<"Lss", Zero, Cst3>>} :
        LET e == Binary(p[1], CloneOf(orig), p[2], p[3]) IN
        Invoke(p[1], e, orig, binary(constants, typesKnown, e, orig))

VisitCompare ==
    \E orig \in NodeIds, p \in {<<"Equ", True, False>>, <<"Neq", Cst3, Zero>>} :
        LET e == Binary(p[1], CloneOf(orig), p[2], p[3]) IN
        Invoke(p[1], e, orig, compare(constants, typesKnown, e, orig))

VisitLAnd ==
    \E orig \in NodeIds, l \in {True, False} :
        LET e == Binary("LAnd", CloneOf(orig), l, Opaque) IN
        Invoke("LAnd", e, orig, postorderLAnd(constants, typesKnown, e, orig))

VisitLOr ==
    \E orig \in NodeIds, l \in {True, False} :
        LET e == Binary("LOr", CloneOf(orig), l, Opaque) IN
        Invoke("LOr", e, orig, postorderLOr(constants, typesKnown, e, orig))

VisitShift ==
    \E orig \in NodeIds, p \in {<<"Shl", Opaque, Zero>>, <<"Shr", Cst3, Cst3>>} :
        LET e == Binary(p[1], CloneOf(orig), p[2], p[3]) IN
        Invoke(p[1], e, orig, shift(constants, typesKnown, warnings, e, orig))

Slice(id, type, e0, e1, e2) == Mk("Slice", id, 0, type, 0, FALSE, <<e0, e1, e2>>, "")
Member(id, type, expr, name) == Mk("Member", id, 0, type, 0, FALSE, <<expr>>, name)
Cast(id, type, expr) == Mk("Cast", id, 0, type, 0, FALSE, <<expr>>, "")
Index(v) == Constant(Type_InfInt, v, 10, FALSE)

VisitSlice ==
    \E orig \in NodeIds, e0 \in {Cst3, Opaque} :
        LET e == Slice(CloneOf(orig), Type_Bits(2, FALSE), e0, Index(1), Index(0)) IN
        Invoke("Slice", e, orig, postorderSlice(constants, typesKnown, e, orig))

VisitMember ==
    \E orig \in NodeIds, x \in {Ref(n, StructT) : n \in NodeIds} :
        LET e == Member(CloneOf(orig), Type_Boolean, x, "g") IN
        Invoke("Member", e, orig, postorderMember(constants, typesKnown, e, orig))

VisitConcat ==
    \E orig \in NodeIds, r \in {Cst3, Zero} :
        LET e == Binary("Concat", CloneOf(orig), Cst3, r) IN
        Invoke("Concat", e, orig, postorderConcat(constants, typesKnown, e, orig))

VisitCast ==
    \E orig \in NodeIds, x \in {Cst3, True} :
        LET e == Cast(CloneOf(orig), U16, x) IN
        Invoke("Cast", e, orig, postorderCast(constants, typesKnown, e, orig))

State(name) == PathExpression(0, name, Type_State)

\* the selector is a Constant, so setContains never uses a null key here
VisitSelectExpression ==
    \E orig \in NodeIds, k \in {Cst3, Zero, Range(Zero, Opaque)} :
        LET e == SelectExpression(CloneOf(orig), Cst3,
                     <<SelectCase(k, State("s1")), SelectCase(DefaultExpression, State("s2"))>>)
        IN  Invoke("SelectExpression", e, orig,
                   postorderSelectExpression(constants, typesKnown, warnings, "segv",
                                             e, orig))

Next ==
    /\ calls < MaxCalls
    /\ \/ VisitPathExpression
       \/ VisitDeclaration_Constant
       \/ VisitCmpl
       \/ VisitNeg
       \/ VisitLNot
       \/ VisitBinary
       \/ VisitCompare
       \/ VisitLAnd
       \/ VisitLOr
       \/ VisitShift
       \/ VisitSlice
       \/ VisitMember
       \/ VisitConcat
       \/ VisitCast
       \/ VisitSelectExpression

Spec == Init /\ [][Next]_vars

(***************************************************************************)
(* Single-handler specifications: one family of handlers on a richer set   *)
(* of operands, MaxFolds invocations from the empty memo.  The             *)
(* construction parameters a family does not read are fixed.               *)
(***************************************************************************)
InitTypes ==
    /\ typesKnown \in BOOLEAN
    /\ warnings = TRUE
    /\ refMap = TRUE
    /\ constants = EmptyMemo
    /\ errorCount = 0
    /\ calls = 0
    /\ last = NoCall
    /\ pass = NoPass

\* ---- slices ----
SliceTargets ==
    {Constant(U16, 43981, 16, FALSE), Constant(U8, 5, 10, FALSE),
     Constant(S8, -3, 10, FALSE), Opaque}
SliceIndexes == {Index(0), Index(1), Index(4), Index(11), Index(2049), Opaque}

SliceWidth(m, l) ==
    IF IsCst(m) /\ IsCst(l) /\ m.value >= l.value THEN m.value - l.value + 1 ELSE 1

FoldSlice ==
    \E orig \in NodeIds, e0 \in SliceTargets, m \in SliceIndexes, l \in SliceIndexes :
        LET e == Slice(CloneOf(orig), Type_Bits(SliceWidth(m, l), FALSE), e0, m, l) IN
        Invoke("Slice", e, orig, postorderSlice(constants, typesKnown, e, orig))

NextSlice == calls < MaxFolds /\ FoldSlice

SpecSlice == InitTypes /\ [][NextSlice]_vars

\* ---- binary arithmetic, bitwise and relational operators ----
LeftOperands ==
    {Constant(t, v, 16, FALSE) : t \in {Type_InfInt, U8}, v \in {200, -3}}
RightOperands ==
    {Constant(t, v, 10, FALSE) : t \in {Type_InfInt, U8, U16}, v \in {100, 0}}

FoldBinary ==
    \E orig \in NodeIds, kind \in ArithKinds \cup DivKinds \cup {"Lss", "Grt", "Leq", "Geq"},
       l \in LeftOperands, r \in RightOperands :
        LET e == Binary(kind, CloneOf(orig), l, r) IN
        Invoke(kind, e, orig, binary(constants, typesKnown, e, orig))

FoldCompare ==
    \E orig \in NodeIds, kind \in {"Equ", "Neq"},
       l \in LeftOperands \cup {True}, r \in RightOperands \cup {False} :
        LET e == Binary(kind, CloneOf(orig), l, r) IN
        Invoke(kind, e, orig, compare(constants, typesKnown, e, orig))

NextArith == calls < MaxFolds /\ (FoldBinary \/ FoldCompare)

SpecArith == InitTypes /\ [][NextArith]_vars

\* ---- select ----
Sel5 == Constant(U8, 5, 10, FALSE)
SelList == ListExpression(0, <<Sel5, True>>)
KeyRange(lo, hi) == Range(Index(lo), Index(hi))
\* 4 .. p, with p not a constant
KeyOpenRange == Range(Index(4), Opaque)
KeyMask == Mask(Index(4), Index(252))

\* the keysets offered to each kind of selector: the first matches, the
\* second does not, the third cannot be folded
ConstantKeysets == {Index(5), KeyRange(0, 3), KeyOpenRange, KeyMask, DefaultExpression}
BoolKeysets == {True, False, Opaque}
ListKeysets ==
    {ListExpression(0, <<Index(5), True>>), ListExpression(0, <<KeyRange(0, 3), True>>),
     ListExpression(0, <<KeyOpenRange, True>>)}

KeysetsFor(sel) ==
    IF IsCst(sel) THEN ConstantKeysets
    ELSE IF IsBool(sel) THEN BoolKeysets
    ELSE IF IsList(sel) THEN ListKeysets
    ELSE {DefaultExpression}

StateName(i) == IF i = 1 THEN "s1" ELSE IF i = 2 THEN "s2" ELSE IF i = 3 THEN "s3" ELSE "s4"

FoldSelectExpression ==
    \E orig \in NodeIds, sel \in {Sel5, True, SelList, Opaque}, n \in 1 .. MaxCases :
        \E ub \in (IF IsCst(sel) \/ sel = Opaque THEN {"segv"} ELSE UBOutcomes),
           ks \in [1 .. n -> KeysetsFor(sel)] :
            LET cases == [i \in 1 .. n |-> SelectCase(ks[i], State(StateName(i)))]
                e == SelectExpression(CloneOf(orig), sel, cases)
            IN  Invoke("SelectExpression", e, orig,
                       postorderSelectExpression(constants, typesKnown, warnings, ub,
                                                 e, orig))

NextSelect == calls < MaxFolds /\ FoldSelectExpression

SpecSelect == InitTypes /\ [][NextSelect]_vars

\* ---- select with longer case lists ----
MaxArms == 3

\* one select of up to MaxArms cases, folded by a new pass; the keysets
\* contain the selector, do not contain it, or cannot be decided
FoldSelectCases ==
    \E orig \in NodeIds, sel \in {Sel5, SelList}, n \in 1 .. MaxArms :
        \E ks \in [1 .. n -> IF IsCst(sel)
                               THEN {Index(5), KeyRange(0, 3), KeyOpenRange,
                                     DefaultExpression}
                               ELSE ListKeysets \cup {DefaultExpression}] :
            LET cases == [i \in 1 .. n |-> SelectCase(ks[i], State(StateName(i)))]
                e == SelectExpression(CloneOf(orig), sel, cases)
            IN  Invoke("SelectExpression", e, orig,
                       postorderSelectExpression(constants, typesKnown, warnings, "segv",
                                                 e, orig))

NextCases == calls = 0 /\ FoldSelectCases

SpecCases == InitTypes /\ [][NextCases]_vars

\* ---- whole passes ----
(***************************************************************************)
(* A program is a list of constant declarations followed by an expression; *)
(* the pass is run on it and then again, with a new memo, on what the      *)
(* first run gave back.                                                    *)
(***************************************************************************)
MaxDepth == 2

Program(decls, e) == Mk("Program", 0, 0, Type_Unknown, 0, FALSE, decls \o <<e>>, "")

\* const S y = { 3, true };  const S x = { y, true };
StructDeclarations ==
    <<Declaration_Constant(0, "y", StructT, Pair),
      Declaration_Constant(0, "x", StructT,
          ListExpression(0, <<PathExpression(0, "y", StructT), True>>))>>
\* const bit<8> x = 0;  const bit<8> y = x + 3;
NumberDeclarations ==
    <<Declaration_Constant(0, "x", U8, Zero),
      Declaration_Constant(0, "y", U8, Binary("Add", 0, PathExpression(0, "x", U8), Cst3))>>
DeclarationLists == {<<>>, StructDeclarations, NumberDeclarations}

\* the type of the names x and y under a list of declarations
DeclaredType(decls) == IF decls = StructDeclarations THEN StructT ELSE U8

\* the type the type map holds for the member `name` of h
MemberType(h, name) ==
    IF name = "g" THEN Type_Boolean
    ELSE IF h.kind = "PathExpression" /\ h.name = "x" THEN StructT
    ELSE U8

\* the expressions with h as an operand
Around(h) ==
    {Unary(k, 0, h) : k \in {"Neg", "LNot", "Cmpl"}}
        \cup {Member(0, MemberType(h, n), h, n) : n \in {"f", "g"}}
        \cup {Binary("Add", 0, h, Cst3), Binary("Lss", 0, Zero, h),
              Binary("Equ", 0, h, True), Binary("LAnd", 0, True, h),
              Binary("LOr", 0, h, Opaque), Binary("Shl", 0, h, Zero),
              Binary("Concat", 0, h, Cst3), Cast(0, U16, h),
              Slice(0, Type_Bits(2, FALSE), h, Index(1), Index(0)),
              SelectExpression(0, h,
                  <<SelectCase(Sel5, State("s1")),
                    SelectCase(DefaultExpression, State("s2"))>>),
              SelectExpression(0, Sel5,
                  <<SelectCase(h, State("s1")), SelectCase(Sel5, State("s2")),
                    SelectCase(Cst3, State("s3"))>>)}

\* the expressions without operands
Leaves(type) ==
    {Cst3, Zero, True, Opaque,
     PathExpression(0, "x", type), PathExpression(0, "y", type)}

InitPass ==
    /\ typesKnown \in BOOLEAN
    /\ warnings = TRUE
    /\ refMap = TRUE
    /\ constants = EmptyMemo
    /\ errorCount = 0
    /\ calls = 0
    /\ last = NoCall
    /\ \E decls \in DeclarationLists :
       \E e \in Leaves(DeclaredType(decls)) :
           pass = [stage |-> "input", depth |-> 0, input |-> Program(decls, e),
                   once |-> Null, twice |-> Null]

\* the program to fold has an expression of any depth up to MaxDepth
Enclose ==
    /\ pass.stage = "input"
    /\ pass.depth < MaxDepth
    /\ LET n == Len(pass.input.kids) IN
       \E e \in Around(pass.input.kids[n]) :
           pass' = [pass EXCEPT !.depth = @ + 1, !.input.kids[n] = e]
    /\ UNCHANGED <<typesKnown, warnings, refMap, constants, errorCount, calls, last>>

\* one run of the pass over tree t, recorded under `field` of pass
RunPass(t, from, field) ==
    /\ pass.stage = from
    /\ \E ub \in UBOutcomes :
        \E r \in {visit(FreshMemo(t), typesKnown, warnings, refMap, ub, t)} :
            /\ pass' = IF r.outcome # "ok" THEN [pass EXCEPT !.stage = "aborted"]
                       ELSE [pass EXCEPT !.stage = field, ![field] = r.node]
            /\ constants' = r.constants
            /\ errorCount' = errorCount + NumErrors(r.diags)
            /\ calls' = calls + r.n
    /\ UNCHANGED <<typesKnown, warnings, refMap, last>>

FirstPass == RunPass(Number(pass.input, 1), "input", "once")

\* the second run is given the output of the first; its nodes are new nodes
\* to the new pass
SecondPass == RunPass(Number(pass.once, 1), "once", "twice")

NextPass == Enclose \/ FirstPass \/ SecondPass

SpecPass == InitPass /\ [][NextPass]_vars

\* ---- concatenation ----
FoldConcat ==
    \E orig \in NodeIds,
       l \in {Constant(t, v, 16, FALSE) : t \in {U8, S8}, v \in {3, -3, 200}},
       r \in {Constant(t, v, 10, FALSE) : t \in {U8, S8, U16}, v \in {5, -1, 0}} :
        LET e == Binary("Concat", CloneOf(orig), l, r) IN
        Invoke("Concat", e, orig, postorderConcat(constants, typesKnown, e, orig))

NextConcat == calls < MaxFolds /\ FoldConcat

SpecConcat == InitTypes /\ [][NextConcat]_vars

\* ---- declarations and the paths that name them ----
MaxVisits == 3

\* the path nodes, nodes other than the declarations: two paths name each
\* declared constant and the last one names something else
PathIds == (MaxNode + 1) .. (3 * MaxNode + 1)
PathName(id) ==
    IF id = 3 * MaxNode + 1 THEN "p" ELSE DeclName(((id - MaxNode - 1) % MaxNode) + 1)

InitPath ==
    /\ typesKnown \in BOOLEAN
    /\ warnings = TRUE
    /\ refMap \in BOOLEAN
    /\ constants = [k \in Keys \cup PathIds \cup {CloneOf(n) : n \in PathIds} |-> Null]
    /\ errorCount = 0
    /\ calls = 0
    /\ last = NoCall
    /\ pass = NoPass

\* the constant declaration that is node orig is folded
FoldDeclaration_Constant ==
    \E orig \in NodeIds, p \in {<<U8, Zero>>, <<StructT, Pair>>, <<U8, Opaque>>} :
        LET d == Declaration_Constant(CloneOf(orig), DeclName(orig), p[1], p[2]) IN
        Invoke("Declaration_Constant", d, orig,
               postorderDeclaration_Constant(constants, typesKnown, d, orig))

\* the path that is node orig is resolved
FoldPathExpression ==
    \E orig \in PathIds :
        LET e == PathExpression(CloneOf(orig), PathName(orig), U8) IN
        Invoke("PathExpression", e, orig,
               postorderPathExpression(constants, refMap, e, orig))

NextPath == calls < MaxVisits /\ (FoldDeclaration_Constant \/ FoldPathExpression)

SpecPath == InitPath /\ [][NextPath]_vars

\* ---- constant declarations ----
FoldDeclaration ==
    \E orig \in NodeIds, type \in {U8, S8, U16, Type_InfInt},
       init \in {Constant(Type_InfInt, 5, 16, FALSE), Constant(Type_InfInt, 0, 10, FALSE),
                 Constant(U8, 200, 16, FALSE), Constant(U16, 7, 10, FALSE),
                 Constant(S8, -3, 10, FALSE), True, Opaque} :
        LET d == Declaration_Constant(CloneOf(orig), DeclName(orig), type, init) IN
        Invoke("Declaration_Constant", d, orig,
               postorderDeclaration_Constant(constants, typesKnown, d, orig))

NextDeclaration == calls < MaxFolds /\ FoldDeclaration

SpecDeclaration == InitTypes /\ [][NextDeclaration]_vars

(***************************************************************************)
(* Properties.                                                             *)
(***************************************************************************)
\* the operands of the last handler invocation
Left == last.e.kids[1]
Right == last.e.kids[2]
LastErrors == NumErrors(last.diags)

\* C1: with types known, a Slice of integer constants target, msb, lsb with
\* lsb <= msb <= MaximumWidthSupported folds to a Constant whose value is
\* (target >> lsb) & ((1 << (msb - lsb + 1)) - 1).
C1_Case ==
    /\ last.handler = "Slice" /\ typesKnown
    /\ IsCst(last.e.kids[1]) /\ IsCst(last.e.kids[2]) /\ IsCst(last.e.kids[3])
    /\ 0 <= last.e.kids[3].value
    /\ last.e.kids[3].value <= last.e.kids[2].value
    /\ last.e.kids[2].value <= MaximumWidthSupported
C1_SliceValue ==
    C1_Case =>
        /\ IsCst(last.node)
        /\ last.node.value =
               BitAnd(ShiftRight(last.e.kids[1].value, last.e.kids[3].value),
                      SliceMaskAllOnes(last.e.kids[2].value, last.e.kids[3].value))

\* the slice the implementation does compute: the mask is the single bit
\* 1 << (msb - lsb)
C1_SingleBitMask ==
    C1_Case =>
        /\ IsCst(last.node)
        /\ last.node.value =
               BitAnd(ShiftRight(last.e.kids[1].value, last.e.kids[3].value),
                      Pow2(last.e.kids[2].value - last.e.kids[3].value))

\* two integer constants whose types binary can unify
CompatibleConstants(l, r) ==
    /\ IsCst(l) /\ IsCst(r)
    /\ l.type.t \in {"InfInt", "Bits"} /\ r.type.t \in {"InfInt", "Bits"}
    /\ (l.type.t = "Bits" /\ r.type.t = "Bits") => SameBits(l.type, r.type)

\* C2: a Div or Mod of two integer constants of compatible types whose divisor
\* is zero or one of whose operands is negative emits an error, returns the
\* original node and adds no entry to the memo.
C2_Case ==
    /\ last.handler \in DivKinds
    /\ CompatibleConstants(Left, Right)
    /\ (Right.value = 0 \/ Left.value < 0 \/ Right.value < 0)
C2_DivErrorReturnsOriginal ==
    C2_Case => /\ LastErrors >= 1
               /\ last.node = last.e
               /\ last.added = {}

\* C8: with types unknown, a binary node whose constant operands carry
\* different Bits types is returned unchanged and no diagnostic is emitted.
C8_Case ==
    /\ last.handler \in ArithKinds \cup DivKinds \cup RelationKinds
    /\ IsCst(Left) /\ IsCst(Right)
    /\ Left.type.t = "Bits" /\ Right.type.t = "Bits" /\ ~SameBits(Left.type, Right.type)
C8_SilentWhenTypesUnknown ==
    (C8_Case /\ ~typesKnown) => (last.node = last.e /\ last.diags = <<>>)

\* the exact result of an arithmetic or bitwise operator on unbounded integers
Exact(kind, a, b) ==
    CASE kind = "Add" -> a + b
      [] kind = "Sub" -> a - b
      [] kind = "Mul" -> a * b
      [] kind = "BAnd" -> BitAnd(a, b)
      [] kind = "BOr" -> BitOr(a, b)
      [] kind = "BXor" -> BitXor(a, b)

\* the type the unification table gives two compatible constants
UnifiedType(l, r) == IF l.type.t = "InfInt" THEN r.type ELSE l.type

\* C10: Add, Sub, Mul, BAnd, BOr, BXor of two integer constants (both InfInt,
\* one InfInt, or the same Bits) fold to a Constant of the unified type whose
\* value is the exact unbounded result, with wasCast set and the left
\* operand's print base.
C10_Case ==
    /\ last.handler \in ArithKinds
    /\ CompatibleConstants(Left, Right)
C10_ExactArithmetic ==
    C10_Case =>
        last.node = Constant(UnifiedType(Left, Right),
                             Exact(last.handler, Left.value, Right.value),
                             Left.base, TRUE)
\* an Add of an InfInt and a bit<8> constant whose sum does not fit 8 bits
C10_Witness ==
    /\ C10_Case /\ last.handler = "Add"
    /\ Left.type.t = "InfInt" /\ Right.type = U8
    /\ last.node.value > 255
    /\ last.node.type = U8

\* a fully constant expression: a Constant, a BoolLiteral, or a List all of
\* whose elements are fully constant
RECURSIVE FullyConstant(_)
FullyConstant(n) ==
    \/ IsCst(n)
    \/ IsBool(n)
    \/ IsList(n) /\ \A i \in 1 .. Len(n.kids) : FullyConstant(n.kids[i])

\* C3: every value stored in the memo is a fully constant expression, also
\* after LAnd with a true left operand, LOr with a false one and a shift by
\* zero.
C3_MemoValuesConstant ==
    \A k \in Keys : constants[k] # Null => FullyConstant(constants[k])

\* the keys of the last setConstant call: the rewritten node and its original
SetKeys == {last.e.id, last.orig}

\* C6: the memo is insert-only: a key that maps to v maps to v after every
\* further handler invocation, also after a setConstant on the same key with
\* another result.
C6_InsertOnly ==
    [][\A k \in Keys : constants[k] # Null => constants'[k] = constants[k]]_vars
\* setConstant was called on a key that held, and still holds, another value
C6_Witness ==
    /\ last.set # Null
    /\ \E k \in SetKeys : constants[k] # Null /\ constants[k] # last.set

\* C9 as stated: after setConstant(node, result) the node and its original
\* both map to result, whatever the memo held before.
C9_BothKeysMapToResult ==
    last.set # Null => \A k \in SetKeys : constants[k] = last.set

\* C9 as amended: after setConstant(node, result) the node and its original
\* are both keys of the memo; each maps to result if it was not a key before
\* the call and keeps its earlier value if it was.
C9_BothKeysRecorded ==
    [][last'.set # Null =>
           \A k \in {last'.e.id, last'.orig} :
               /\ constants'[k] # Null
               /\ constants'[k] = IF constants[k] = Null THEN last'.set ELSE constants[k]]_vars
\* setConstant has just inserted both keys
C9_Witness ==
    /\ last.set # Null
    /\ last.added = SetKeys
    /\ \A k \in SetKeys : constants[k] = last.set

\* the selector and the cases of the last select, and what setContains
\* answers for case i
Selector == getConstant(constants, typesKnown, last.e.kids[1])
Cases == SelectCases(last.e)
Contains(i) == setContains(constants, typesKnown, "segv", Cases[i].kids[1], Selector).r

\* C4: with types known and a constant selector, a select that is replaced by
\* a target state is replaced by the state of the first case whose keyset
\* contains the selector, and every earlier case was answered No.
C4_Case ==
    /\ last.handler = "SelectExpression" /\ typesKnown /\ last.outcome = "ok"
    /\ Selector # Null
    /\ last.node.kind = "PathExpression" /\ last.node.type = Type_State
C4_FirstMatchingCase ==
    C4_Case =>
        \E i \in 1 .. Len(Cases) :
            /\ last.node = Cases[i].kids[2]
            /\ Contains(i) = "Yes"
            /\ \A j \in 1 .. (i - 1) : Contains(j) = "No"
\* the select was replaced by the state of its second case, the first being
\* answered No
C4_Witness ==
    /\ C4_Case
    /\ Len(Cases) >= 2
    /\ last.node = Cases[2].kids[2]
    /\ Contains(1) = "No"

\* setContains(keySet, select) needs an operand of keySet as a constant and
\* getConstant has none
RECURSIVE MissingOperand(_, _, _, _)
MissingOperand(cs, tk, keySet, select) ==
    IF keySet.kind = "DefaultExpression" THEN FALSE
    ELSE IF IsList(select) THEN
        IF IsList(keySet) THEN
            /\ Len(keySet.kids) = Len(select.kids)
            /\ \E i \in 1 .. Len(select.kids) :
                   /\ MissingOperand(cs, tk, keySet.kids[i], select.kids[i])
                   /\ \A j \in 1 .. (i - 1) :
                          setContains(cs, tk, "segv", keySet.kids[j], select.kids[j]).r = "Yes"
        ELSE Len(select.kids) = 1 /\ MissingOperand(cs, tk, keySet, select.kids[1])
    ELSE IF IsBool(select) THEN getConstant(cs, tk, keySet) = Null
    ELSE IF IsCst(select) /\ keySet.kind \in {"Range", "Mask"} THEN
        \/ getConstant(cs, tk, keySet.kids[1]) = Null
        \/ getConstant(cs, tk, keySet.kids[2]) = Null
    ELSE FALSE

\* C7: for a List, BoolLiteral or Constant selector, when setContains needs a
\* keyset operand as a constant and getConstant has none, it emits a
\* diagnostic and answers DontKnow.
C7_MissingOperandIsDontKnow ==
    (last.handler = "SelectExpression" /\ typesKnown /\ Selector # Null) =>
        \A i \in 1 .. Len(last.inside) :
            MissingOperand(constants, typesKnown, Cases[i].kids[1], Selector) =>
                (last.inside[i] = "DontKnow" /\ LastErrors >= 1)

\* C5: the pass run on the output of a first run of the pass (same mode, new
\* memo) gives back a tree structurally equal to the output of the first run.
C5_Idempotence ==
    pass.stage = "twice" => Strip(pass.twice) = Strip(pass.once)

\* the same for trees that declare no constant, where it does hold
C5_WithoutDeclarations ==
    (pass.stage = "twice" /\ Len(pass.input.kids) = 1)
        => Strip(pass.twice) = Strip(pass.once)

\* the cases among the first j that setContains cannot decide, in source order
RECURSIVE Undecided(_)
Undecided(j) ==
    IF j = 0 THEN <<>>
    ELSE Undecided(j - 1) \o (IF Contains(j) = "DontKnow" THEN <<Cases[j]>> ELSE <<>>)

\* case i is the first to contain the selector and an earlier case is undecided
C11_Case(i) ==
    /\ last.handler = "SelectExpression" /\ typesKnown /\ last.outcome = "ok"
    /\ Selector # Null
    /\ i \in 1 .. Len(Cases)
    /\ Contains(i) = "Yes"
    /\ \A j \in 1 .. (i - 1) : Contains(j) \in {"No", "DontKnow"}
    /\ \E j \in 1 .. (i - 1) : Contains(j) = "DontKnow"

\* C11: with types known and a constant selector, when the first case that
\* contains the selector comes after an undecided case, the handler returns
\* the select itself with exactly the undecided cases before it, in source
\* order, followed by (DefaultExpression, state of the matching case); the
\* cases answered No and the cases after the matching one are gone.
C11_RewrittenCases ==
    \A i \in 1 .. Len(last.e.kids) :
        C11_Case(i) =>
            last.node =
                [last.e EXCEPT !.kids =
                    <<last.e.kids[1]>> \o Undecided(i - 1)
                        \o <<SelectCase(DefaultExpression, Cases[i].kids[2])>>]
\* three cases: a case answered No, an undecided one, then the matching one
C11_Witness ==
    /\ Len(last.e.kids) = 4
    /\ C11_Case(3)
    /\ \E j \in 1 .. 2 : Contains(j) = "No"
    /\ Len(last.node.kids) = 3
\* the matching case is second of three, after an undecided one
C11_WitnessTail ==
    /\ Len(last.e.kids) = 4
    /\ C11_Case(2)
    /\ Len(last.node.kids) = 3

\* a Concat of two Constants of one Bits type has just been handled
C12_Case ==
    /\ last.handler = "Concat"
    /\ IsCst(Left) /\ IsCst(Right)
    /\ Left.type.t = "Bits" /\ Right.type.t = "Bits"
    /\ SameBits(Left.type, Right.type)

\* C12: a Concat of two Constants with equal Bits{w,s} types, signed operands
\* with negative values included, folds to a Constant of type Bits of width
\* wLeft + wRight and the common signedness whose value is
\* (leftValue << wRight) | rightValue.
C12_ConcatValue ==
    C12_Case =>
        /\ IsCst(last.node)
        /\ last.node.type = Type_Bits(Left.type.size + Right.type.size, Left.type.isSigned)
        /\ last.node.value = BitOr(ShiftLeft(Left.value, Right.type.size), Right.value)

\* the value the implementation does compute: the sum, which is the bitwise
\* or only while the right value lies in 0 .. 2^wRight - 1
C12_ConcatSum ==
    C12_Case =>
        /\ IsCst(last.node)
        /\ last.node.type = Type_Bits(Left.type.size + Right.type.size, Left.type.isSigned)
        /\ last.node.value = ShiftLeft(Left.value, Right.type.size) + Right.value

\* the memo entry of the declaration the last path names (Null without a
\* symbol table, a declaration, or an entry), in memo cs
Resolved(cs, e) ==
    IF refMap /\ getDeclaration(e.name) # 0 THEN Get(cs, getDeclaration(e.name)) ELSE Null

\* C13: when the declaration a PathExpression names has a memo entry v, the
\* path node and its original are keys of the memo mapped to v, and the
\* handler returns v, or the path node itself when v is a list; without a
\* symbol table, a declaration or an entry the path is returned unchanged and
\* the memo is unchanged.
C13_PathResolution ==
    [][(last'.handler = "PathExpression" /\ calls' = calls + 1) =>
          LET e == last'.e
              v == Resolved(constants, e)
          IN  IF v # Null
              THEN /\ constants'[e.id] = v
                   /\ constants'[last'.orig] = v
                   /\ \A k \in DOMAIN constants \ {e.id, last'.orig} :
                          constants'[k] = constants[k]
                   /\ last'.node = IF IsList(v) THEN e ELSE v
              ELSE /\ last'.node = e
                   /\ constants' = constants]_vars
\* a path naming a list-valued constant has stayed in place and is memoized
C13_Witness ==
    /\ last.handler = "PathExpression"
    /\ IsList(Resolved(constants, last.e))
    /\ last.node = last.e
    /\ last.added = {last.e.id, last.orig}
\* a path naming an integer constant has been replaced by the constant
C13_WitnessReplaced ==
    /\ last.handler = "PathExpression"
    /\ IsCst(Resolved(constants, last.e))
    /\ last.node = Resolved(constants, last.e)
    /\ last.added = {last.e.id, last.orig}
\* a path has been visited again after it was memoized
C13_WitnessAgain ==
    /\ last.handler = "PathExpression"
    /\ Resolved(constants, last.e) # Null
    /\ last.added = {}

\* the initializer of the last declaration handled
Initializer == last.e.kids[1]
\* the initializer as a Constant of the declared type
Declared == Constant(last.e.type, Initializer.value, Initializer.base, FALSE)

\* with types unknown, a declaration whose initializer is an integer Constant
\* has just been handled
C14_Case ==
    /\ last.handler = "Declaration_Constant" /\ ~typesKnown
    /\ IsCst(Initializer) /\ Initializer.type.t \in {"InfInt", "Bits"}

\* what C14 says of a declaration of type Bits{w,s}: the memoized value is
\* the initializer as a Constant of exactly the declared type, and the
\* declaration returned has it as initializer, rebuilt if that differs from
\* the initializer given
C14_BitsPart ==
    last.e.type.t = "Bits" =>
        /\ last.set = Declared
        /\ last.node.kind = "Declaration_Constant"
        /\ last.node.kids[1] = Declared
        /\ last.node.name = last.e.name /\ last.node.type = last.e.type
        /\ (Declared = Initializer) <=> (last.node = last.e)

\* C14: with types unknown, a declaration whose initializer is an integer
\* Constant is memoized, and when its type is Bits{w,s} the memoized value
\* and the initializer of the declaration returned are as C14_BitsPart says.
C14_DeclarationMemoized ==
    C14_Case =>
        /\ last.set # Null
        /\ SetKeys \subseteq {k \in DOMAIN constants : constants[k] # Null}
        /\ C14_BitsPart

\* the same for declarations of type Bits{w,s} alone, where it does hold
C14_BitsDeclaration ==
    (C14_Case /\ last.e.type.t = "Bits") =>
        /\ SetKeys \subseteq {k \in DOMAIN constants : constants[k] # Null}
        /\ C14_BitsPart

=============================================================================
